---- MODULE Spec2Model ----
(***************************************************************************)
(* State-machine model of the smc_stripe_server backends.                  *)
(*                                                                         *)
(* The repository holds five near-duplicate Express servers:               *)
(*   "first"        src/server.js 1-326   (payment intent, Stripe invoice, *)
(*                                         payment sheet, webhook)         *)
(*   "simple"       src/server.js 330-408 (payment intent only)            *)
(*   "transactions" src/server.js 413-581 (payment intent + transactions   *)
(*                                         webhook)                        *)
(*   "invoiceAuth"  src/unnamed/part_000  (invoice is source of truth)     *)
(*   "pointsOnly"   src/unnamed/part_001  (points webhook + upload URL)    *)
(*                                                                         *)
(* A handler is an async function: it runs synchronously up to its first   *)
(* await, and every awaited remote call is one atomic step of the model    *)
(* (the remote effect together with the code that runs until the next      *)
(* await).  Handlers of different requests interleave at these steps.      *)
(* Stripe calls fail by throwing; Supabase calls fail by returning an      *)
(* error field, which the handler sees only where the code reads it.       *)
(***************************************************************************)
EXTENDS Integers, Sequences, FiniteSets, Bags, TLC

\* ------------------------------------------------------------------ bounds
MaxRequests == 2   \* requests (of any route) accepted in one behaviour
MaxClock == 1      \* largest Date.now() reading
MaxItems == 2      \* invoice_items rows of the stored invoice

\* ------------------------------------------------------- program constants
MinAmount == 50          \* amount < 50 / amountCents < 50
PointsDivisor == 1000    \* Math.floor(amountCents / 1000)

Variants == {"first", "simple", "transactions", "invoiceAuth", "pointsOnly"}
Slots == {1, 2}          \* handlers that can be in flight at once
Email == "a@x"
InvoiceIds == {"i1"}     \* rows of table invoices
TxnIds == {"t1"}         \* rows of table transactions
InvoiceOwner == "u1"     \* invoices.customer_id of the stored invoice
AllowedExt == {<<"m","p","4">>, <<"m","o","v">>, <<"m","4","v">>, <<"a","v","i">>}

VARIABLES
  variant,    \* which of the five servers is running
  now,        \* the clock read by Date.now()
  started,    \* requests accepted so far
  slots,      \* the handlers in flight
  done,       \* the request answered by the latest step, with its response
  invoices,   \* Supabase table invoices: id -> row
  txns,       \* Supabase table transactions: id -> row
  customers,  \* Stripe customers per email
  intents,    \* Stripe payment intents created so far
  sInvoices,  \* Stripe invoices created so far
  awards,     \* bag of events for which a points-award RPC was issued
  reversals,  \* bag of events for which a points-reversal RPC was issued
  issued,     \* bag of storage paths returned by /get-upload-url
  overlapped  \* two customer-resolving handlers have been in flight at once

vars == <<variant, now, started, slots, done, invoices, txns, customers,
          intents, sInvoices, awards, reversals, issued, overlapped>>

storage == <<invoices, txns, awards, reversals>>
stripeSide == <<customers, intents, sInvoices>>

\* ----------------------------------------------------------------- requests
NoLoc == [found |-> FALSE, invoice |-> [found |-> FALSE], amountCents |-> 0,
          pi |-> 0, sinv |-> 0, k |-> 0, path |-> <<>>]

Idle == [route |-> "idle", body |-> [none |-> TRUE], pc |-> "idle", status |-> 0,
         stripe |-> 0, reads |-> 0, writes |-> 0, rpcs |-> 0, err |-> FALSE,
         loc |-> NoLoc]

NewRequest(route, body, pc) == [Idle EXCEPT !.route = route, !.body = body, !.pc = pc]

\* A new request is taken by the lowest free slot.
FreeSlot(s) ==
  /\ started < MaxRequests
  /\ slots[s].route = "idle"
  /\ \A t \in Slots : t < s => slots[t].route # "idle"

\* res.status(code).json(...) / res.json(...): the handler ends.
Respond(s, r, code) ==
  /\ done' = [r EXCEPT !.status = code, !.pc = "done"]
  /\ slots' = [slots EXCEPT ![s] = Idle]
  /\ UNCHANGED overlapped

\* The routes that call customers.list and then customers.create.
Resolves(r) == r.route \in {"cpi", "csi"} /\ variant # "simple"

\* The handler goes on to its next await; it is now in flight together with
\* the handlers of the other slots.
Continue(s, r, pc) ==
  /\ slots' = [slots EXCEPT ![s] = [r EXCEPT !.pc = pc]]
  /\ done' = Idle
  /\ overlapped' = \/ overlapped
                   \/ Resolves(r) /\ \E t \in Slots \ {s} : Resolves(slots[t])

StripeCall(r) == [r EXCEPT !.stripe = @ + 1]
StripeThrow(r) == [r EXCEPT !.stripe = @ + 1, !.err = TRUE]
SupaRead(r) == [r EXCEPT !.reads = @ + 1]
SupaWrite(r) == [r EXCEPT !.writes = @ + 1]
SupaRpc(r) == [r EXCEPT !.rpcs = @ + 1]
SupaError(r) == [r EXCEPT !.err = TRUE]

Falsy(str) == str = ""

\* ============================================================ /get-upload-url
\* String.prototype.toLowerCase on one character
LowerChar(c) == IF c = "M" THEN "m" ELSE IF c = "P" THEN "p" ELSE c

toLowerCase(str) == [i \in 1..Len(str) |-> LowerChar(str[i])]

\* fileName.split('.').pop(): the text after the last '.', the whole name when
\* it has no '.'.
LastDot(str) ==
  IF \E i \in 1..Len(str) : str[i] = "."
  THEN CHOOSE i \in 1..Len(str) :
         /\ str[i] = "."
         /\ \A j \in (i+1)..Len(str) : str[j] # "."
  ELSE 0

\* Mutant of SplitPop: fileName.split('.')[1], the text between the first and
\* the second '.'.
SplitSecond(str) ==
  LET dots == {i \in 1..Len(str) : str[i] = "."}
      first == IF dots = {} THEN Len(str) + 1
               ELSE CHOOSE i \in dots : \A j \in dots : i <= j
      later == {i \in dots : i > first}
      second == IF later = {} THEN Len(str) + 1
                ELSE CHOOSE i \in later : \A j \in later : i <= j
  IN SubSeq(str, first + 1, second - 1)

SplitPop(str) == SubSeq(str, LastDot(str) + 1, Len(str))

ExtOf(fileName) == toLowerCase(SplitPop(fileName))

AllowedType(ext) == ext \in AllowedExt

FileNames ==
  { <<>>,
    <<"a",".","m","p","4">>,
    <<"a",".","M","P","4">>,
    <<"a",".","t","x","t">>,
    <<"a",".","m","p","4",".","t","x","t">>,
    <<"a",".","t","x","t",".","m","o","v">>,
    <<"m","p","4">>,
    <<".","a","v","i">>,
    <<"a",".">> }

\* `videos/${Date.now()}_${fileName}`
FilePath(t, fileName) == <<t, fileName>>

\* part_001:175-190, up to the await of createSignedUploadUrl
UploadStart(s) ==
  /\ variant = "pointsOnly"
  /\ FreeSlot(s)
  /\ \E fileName \in FileNames :
       LET r == NewRequest("upload", [fileName |-> fileName], "sign") IN
       IF Len(fileName) = 0 THEN Respond(s, r, 400)
       ELSE IF ~AllowedType(ExtOf(fileName)) THEN Respond(s, r, 400)
       ELSE Continue(s, [r EXCEPT !.loc.path = FilePath(now, fileName)], "sign")
  /\ started' = started + 1
  /\ UNCHANGED <<variant, now, storage, stripeSide, issued>>

\* part_001:191-202, createSignedUploadUrl returns a signed URL
UploadSigned(s) ==
  /\ slots[s].route = "upload" /\ slots[s].pc = "sign"
  /\ Respond(s, SupaRead(slots[s]), 200)
  /\ issued' = issued (+) SetToBag({slots[s].loc.path})
  /\ UNCHANGED <<variant, now, started, storage, stripeSide>>

\* part_001:195,203-206, createSignedUploadUrl returns an error
UploadFailed(s) ==
  /\ slots[s].route = "upload" /\ slots[s].pc = "sign"
  /\ Respond(s, SupaError(SupaRead(slots[s])), 500)
  /\ UNCHANGED <<variant, now, started, storage, stripeSide, issued>>

\* The clock advances; only the upload handler reads it into modelled state.
Tick ==
  /\ variant = "pointsOnly"
  /\ now < MaxClock
  /\ now' = now + 1
  /\ done' = Idle
  /\ UNCHANGED <<variant, started, slots, storage, stripeSide, issued, overlapped>>


\* ===================================================== /create-payment-intent
\* req.body of POST /create-payment-intent, the fields each variant reads
CpiBodies(v) ==
  [ hasAmount : {TRUE}, amount : IF v = "invoiceAuth" THEN {2500} ELSE {49, 2500},
    customerEmail : {"", Email},
    customerId : IF v = "simple" THEN {""}
                 ELSE IF v = "invoiceAuth" THEN {"", "u1", "u2"} ELSE {"", "u1"},
    invoiceId : IF v = "invoiceAuth" THEN {"", "i1", "i9"}
                ELSE IF v = "first" THEN {"", "i1"} ELSE {""},
    transactionId : IF v = "transactions" THEN {"", "t1"} ELSE {""} ]
  \cup
  [ hasAmount : {FALSE}, amount : {0},
    customerEmail : {Email},
    customerId : IF v = "simple" THEN {""} ELSE {"u1"},
    invoiceId : IF v \in {"invoiceAuth", "first"} THEN {"i1"} ELSE {""},
    transactionId : IF v = "transactions" THEN {"t1"} ELSE {""} ]

\* !amount
NoAmount(b) == ~b.hasAmount \/ b.amount = 0

\* server.js:60-65
InvalidFirst(b) == NoAmount(b) \/ b.amount < MinAmount \/ Falsy(b.customerId)

\* server.js:379 (amounts of the model are numbers, so isNaN is false)
InvalidSimple(b) == NoAmount(b)

\* server.js:458
InvalidTransactions(b) == NoAmount(b) \/ Falsy(b.customerId) \/ Falsy(b.transactionId)

\* part_000:72-74
InvalidInvoiceAuth(b) == Falsy(b.customerId) \/ Falsy(b.customerEmail) \/ Falsy(b.invoiceId)

\* part_001:65-71
InvalidPointsOnly(b) == NoAmount(b) \/ b.amount < MinAmount \/ Falsy(b.customerId)

CpiInvalid(v, b) ==
  CASE v = "first" -> InvalidFirst(b)
    [] v = "simple" -> InvalidSimple(b)
    [] v = "transactions" -> InvalidTransactions(b)
    [] v = "invoiceAuth" -> InvalidInvoiceAuth(b)
    [] v = "pointsOnly" -> InvalidPointsOnly(b)

\* the first await of the handler
CpiFirstAwait(v) ==
  IF v = "invoiceAuth" THEN "read" ELSE IF v = "simple" THEN "intent" ELSE "list"

\* the synchronous head of the handler: destructure req.body, validate
CpiStart(s) ==
  /\ FreeSlot(s)
  /\ \E b \in CpiBodies(variant) :
       LET r == NewRequest("cpi", b, "start") IN
       IF CpiInvalid(variant, b) THEN Respond(s, r, 400)
       ELSE Continue(s, r, CpiFirstAwait(variant))
  /\ started' = started + 1
  /\ UNCHANGED <<variant, now, storage, stripeSide, issued>>

\* .select('id, customer_id, amount, status').eq('id', invoiceId).maybeSingle()
SelectInvoice(invoiceId) ==
  IF invoiceId \in InvoiceIds
  THEN [found |-> TRUE, customer_id |-> InvoiceOwner,
        amount |-> invoices[invoiceId].amount, status |-> invoices[invoiceId].status]
  ELSE [found |-> FALSE]

\* Mutant of NotOwner: the invoice's owner is compared with itself.
OwnerComparedToItself(invoice, customerId) == invoice.customer_id # invoice.customer_id

\* part_000:85
NotOwner(invoice, customerId) == invoice.customer_id # customerId

\* Mutant of AlreadyPaid: the status is compared with a value never stored.
PaidMisspelled(invoice) == invoice.status = "Paid"

\* part_000:88
AlreadyPaid(invoice) == invoice.status = "paid"

\* Math.round(Number(invoice.amount) * 100); amounts are held in thousandths
\* of a dollar, so that the rounding has something to round
AmountCents(amount) == (amount + 5) \div 10

\* part_000:93
InvalidInvoiceAmount(amountCents) == amountCents = 0 \/ amountCents < MinAmount

\* part_000:77-95, the invoice read returned without error
CpiRead(s) ==
  /\ slots[s].route = "cpi" /\ slots[s].pc = "read"
  /\ LET invoice == SelectInvoice(slots[s].body.invoiceId)
         r == [SupaRead(slots[s]) EXCEPT !.loc.invoice = invoice]
     IN IF ~invoice.found THEN Respond(s, r, 404)
        ELSE IF NotOwner(invoice, r.body.customerId) THEN Respond(s, r, 403)
        ELSE IF AlreadyPaid(invoice) THEN Respond(s, r, 409)
        ELSE IF InvalidInvoiceAmount(AmountCents(invoice.amount)) THEN Respond(s, r, 400)
        ELSE Continue(s, [r EXCEPT !.loc.amountCents = AmountCents(invoice.amount)], "list")
  /\ UNCHANGED <<variant, now, started, storage, stripeSide, issued>>

\* part_000:83, the invoice read returned an error: throw invErr
CpiReadError(s) ==
  /\ slots[s].route = "cpi" /\ slots[s].pc = "read"
  /\ Respond(s, SupaError(SupaRead(slots[s])), 500)
  /\ UNCHANGED <<variant, now, started, storage, stripeSide, issued>>

\* a lookup that never matches an existing customer
ListFindsNothing(email) == FALSE

\* stripe.customers.list({ email, limit: 1 }).data.length > 0; without an
\* email filter the list is over all customers
ListFinds(email) ==
  IF email = "" THEN \E e \in DOMAIN customers : customers[e] > 0
  ELSE customers[email] > 0

\* stripe.customers.list returned
CpiList(s) ==
  /\ slots[s].route = "cpi" /\ slots[s].pc = "list"
  /\ LET found == ListFinds(slots[s].body.customerEmail)
         r == [StripeCall(slots[s]) EXCEPT !.loc.found = found]
     IN Continue(s, r, IF found THEN "eph" ELSE "create")
  /\ UNCHANGED <<variant, now, started, storage, stripeSide, issued>>

\* stripe.customers.create returned
CpiCreate(s) ==
  /\ slots[s].route = "cpi" /\ slots[s].pc = "create"
  /\ customers' = [customers EXCEPT ![slots[s].body.customerEmail] = @ + 1]
  /\ Continue(s, StripeCall(slots[s]), "eph")
  /\ UNCHANGED <<variant, now, started, storage, intents, sInvoices, issued>>

\* stripe.ephemeralKeys.create returned
CpiEph(s) ==
  /\ slots[s].route = "cpi" /\ slots[s].pc = "eph"
  /\ Continue(s, StripeCall(slots[s]), "intent")
  /\ UNCHANGED <<variant, now, started, storage, stripeSide, issued>>

\* the variants that save the payment intent id on a stored row
SavesIntent(v) == v \in {"invoiceAuth", "transactions"}

\* stripe.paymentIntents.create returned
CpiIntent(s) ==
  /\ slots[s].route = "cpi" /\ slots[s].pc = "intent"
  /\ intents' = intents + 1
  /\ LET r == [StripeCall(slots[s]) EXCEPT !.loc.pi = intents + 1]
     IN IF SavesIntent(variant) THEN Continue(s, r, "save") ELSE Respond(s, r, 200)
  /\ UNCHANGED <<variant, now, started, storage, customers, sInvoices, issued>>

\* the awaited Stripe call throws: catch, res.status(500)
CpiStripeThrow(s) ==
  /\ slots[s].route = "cpi" /\ slots[s].pc \in {"list", "create", "eph", "intent"}
  /\ Respond(s, StripeThrow(slots[s]), 500)
  /\ UNCHANGED <<variant, now, started, storage, stripeSide, issued>>

\* .update({ payment_intent_id }).eq('id', id) applied to the stored row
SaveIntentId(v, b, pi) ==
  /\ invoices' = IF v = "invoiceAuth" /\ b.invoiceId \in InvoiceIds
                 THEN [invoices EXCEPT ![b.invoiceId].payment_intent_id = pi]
                 ELSE invoices
  /\ txns' = IF v = "transactions" /\ b.transactionId \in TxnIds
             THEN [txns EXCEPT ![b.transactionId].payment_intent_id = pi]
             ELSE txns

\* part_000:128-138, server.js:493-505: the update returned, res.json
CpiSave(s) ==
  /\ slots[s].route = "cpi" /\ slots[s].pc = "save"
  /\ SaveIntentId(variant, slots[s].body, slots[s].loc.pi)
  /\ Respond(s, SupaWrite(slots[s]), 200)
  /\ UNCHANGED <<variant, now, started, awards, reversals, stripeSide, issued>>

\* the update returned an error, which the handler does not read: res.json
CpiSaveError(s) ==
  /\ slots[s].route = "cpi" /\ slots[s].pc = "save"
  /\ Respond(s, SupaError(SupaWrite(slots[s])), 200)
  /\ UNCHANGED <<variant, now, started, storage, stripeSide, issued>>

\* ====================================================== /create-stripe-invoice
CsiBodies == [invoiceId : {"", "i1", "i9"}]

\* server.js:128-129
CsiStart(s) ==
  /\ variant = "first"
  /\ FreeSlot(s)
  /\ \E b \in CsiBodies :
       LET r == NewRequest("csi", b, "start") IN
       IF Falsy(b.invoiceId) THEN Respond(s, r, 400) ELSE Continue(s, r, "read")
  /\ started' = started + 1
  /\ UNCHANGED <<variant, now, storage, stripeSide, issued>>

\* server.js:132-156: .single() returned the invoice with its items and email
CsiRead(s) ==
  /\ slots[s].route = "csi" /\ slots[s].pc = "read"
  /\ slots[s].body.invoiceId \in InvoiceIds
  /\ Continue(s, SupaRead(slots[s]), "list")
  /\ UNCHANGED <<variant, now, started, storage, stripeSide, issued>>

\* server.js:152: .single() returned an error (no such row, or a failed read)
CsiReadError(s) ==
  /\ slots[s].route = "csi" /\ slots[s].pc = "read"
  /\ Respond(s, SupaError(SupaRead(slots[s])), 500)
  /\ UNCHANGED <<variant, now, started, storage, stripeSide, issued>>

\* server.js:157-161, stripe.customers.list returned
CsiList(s) ==
  /\ slots[s].route = "csi" /\ slots[s].pc = "list"
  /\ LET found == ListFinds(Email)
     IN Continue(s, [StripeCall(slots[s]) EXCEPT !.loc.found = found],
                 IF found THEN "invoice" ELSE "create")
  /\ UNCHANGED <<variant, now, started, storage, stripeSide, issued>>

\* server.js:161, stripe.customers.create returned
CsiCreate(s) ==
  /\ slots[s].route = "csi" /\ slots[s].pc = "create"
  /\ customers' = [customers EXCEPT ![Email] = @ + 1]
  /\ Continue(s, StripeCall(slots[s]), "invoice")
  /\ UNCHANGED <<variant, now, started, storage, intents, sInvoices, issued>>

\* server.js:166-177, stripe.invoices.create returned; the loop begins
CsiInvoice(s) ==
  /\ slots[s].route = "csi" /\ slots[s].pc = "invoice"
  /\ sInvoices' = Append(sInvoices, [items |-> 0, final |-> FALSE])
  /\ Continue(s, [StripeCall(slots[s]) EXCEPT !.loc.sinv = Len(sInvoices) + 1],
              IF MaxItems > 0 THEN "item" ELSE "finalize")
  /\ UNCHANGED <<variant, now, started, storage, customers, intents, issued>>

\* server.js:177-186, stripe.invoiceItems.create returned for one item
CsiItem(s) ==
  /\ slots[s].route = "csi" /\ slots[s].pc = "item"
  /\ sInvoices' = [sInvoices EXCEPT ![slots[s].loc.sinv].items = @ + 1]
  /\ Continue(s, [StripeCall(slots[s]) EXCEPT !.loc.k = @ + 1],
              IF slots[s].loc.k + 1 < MaxItems THEN "item" ELSE "finalize")
  /\ UNCHANGED <<variant, now, started, storage, customers, intents, issued>>

\* server.js:189, stripe.invoices.finalizeInvoice returned
CsiFinalize(s) ==
  /\ slots[s].route = "csi" /\ slots[s].pc = "finalize"
  /\ sInvoices' = [sInvoices EXCEPT ![slots[s].loc.sinv].final = TRUE]
  /\ Continue(s, StripeCall(slots[s]), "save")
  /\ UNCHANGED <<variant, now, started, storage, customers, intents, issued>>

\* server.js:194-198, the values of the update
OpenInvoice(row, sinv) == [row EXCEPT !.stripe_invoice_id = sinv, !.status = "open"]

\* server.js:192-201, the update returned, res.json
CsiSave(s) ==
  /\ slots[s].route = "csi" /\ slots[s].pc = "save"
  /\ invoices' = [invoices EXCEPT ![slots[s].body.invoiceId] = OpenInvoice(@, slots[s].loc.sinv)]
  /\ Respond(s, SupaWrite(slots[s]), 200)
  /\ UNCHANGED <<variant, now, started, txns, awards, reversals, stripeSide, issued>>

\* the update returned an error, which the handler does not read: res.json
CsiSaveError(s) ==
  /\ slots[s].route = "csi" /\ slots[s].pc = "save"
  /\ Respond(s, SupaError(SupaWrite(slots[s])), 200)
  /\ UNCHANGED <<variant, now, started, storage, stripeSide, issued>>

\* a catch block that empties the Stripe invoice it had begun
CsiStripeThrowRollsBack(s) ==
  /\ slots[s].route = "csi"
  /\ slots[s].pc \in {"list", "create", "invoice", "item", "finalize"}
  /\ Respond(s, StripeThrow(slots[s]), 500)
  /\ sInvoices' = [n \in DOMAIN sInvoices |->
                     IF n = slots[s].loc.sinv THEN [sInvoices[n] EXCEPT !.items = 0]
                     ELSE sInvoices[n]]
  /\ UNCHANGED <<variant, now, started, storage, customers, intents, issued>>

\* server.js:202-205, the awaited Stripe call throws
CsiStripeThrow(s) ==
  /\ slots[s].route = "csi"
  /\ slots[s].pc \in {"list", "create", "invoice", "item", "finalize"}
  /\ Respond(s, StripeThrow(slots[s]), 500)
  /\ UNCHANGED <<variant, now, started, storage, stripeSide, issued>>

\* ====================================================== /invoice-payment-sheet
\* stripeInvoiceId: 0 when the body has none, else the number of a Stripe invoice
IpsBodies == [stripeInvoiceId : {0, 1}]

\* server.js:214-217
IpsStart(s) ==
  /\ variant = "first"
  /\ FreeSlot(s)
  /\ \E b \in IpsBodies :
       LET r == NewRequest("ips", b, "start") IN
       IF b.stripeInvoiceId = 0 THEN Respond(s, r, 400) ELSE Continue(s, r, "retrieve")
  /\ started' = started + 1
  /\ UNCHANGED <<variant, now, storage, stripeSide, issued>>

\* invoice.payment_intent is set once the Stripe invoice is finalized
Payable(sid) == sInvoices[sid].final

\* server.js:219-222, stripe.invoices.retrieve returned
IpsRetrieve(s) ==
  /\ slots[s].route = "ips" /\ slots[s].pc = "retrieve"
  /\ slots[s].body.stripeInvoiceId \in 1..Len(sInvoices)
  /\ IF Payable(slots[s].body.stripeInvoiceId)
     THEN Continue(s, StripeCall(slots[s]), "update")
     ELSE Respond(s, StripeCall(slots[s]), 500)
  /\ UNCHANGED <<variant, now, started, storage, stripeSide, issued>>

\* server.js:224-234, stripe.paymentIntents.update returned
IpsUpdate(s) ==
  /\ slots[s].route = "ips" /\ slots[s].pc = "update"
  /\ Continue(s, StripeCall(slots[s]), "eph")
  /\ UNCHANGED <<variant, now, started, storage, stripeSide, issued>>

\* server.js:236-245, stripe.ephemeralKeys.create returned, res.json
IpsEph(s) ==
  /\ slots[s].route = "ips" /\ slots[s].pc = "eph"
  /\ Respond(s, StripeCall(slots[s]), 200)
  /\ UNCHANGED <<variant, now, started, storage, stripeSide, issued>>

\* server.js:246-249, the awaited Stripe call throws
IpsStripeThrow(s) ==
  /\ slots[s].route = "ips" /\ slots[s].pc \in {"retrieve", "update", "eph"}
  /\ Respond(s, StripeThrow(slots[s]), 500)
  /\ UNCHANGED <<variant, now, started, storage, stripeSide, issued>>

\* ============================================================ /webhooks/stripe
Succeeded == "payment_intent.succeeded"
PaymentFailed == "payment_intent.payment_failed"
Canceled == "payment_intent.canceled"
InvoicePaid == "invoice.payment_succeeded"

\* event.type and the fields of event.data.object that a variant's handler reads
\* (metadata.invoice_id, metadata.user_id, metadata.transaction_id,
\* amount_received, and the id of a Stripe invoice object)
Events(v) ==
  IF v = "first" THEN
    [ type : {Succeeded, PaymentFailed}, invoice_id : {"", "i1"}, user_id : {"", "u1"},
      transaction_id : {""}, amount_received : {500, 2500}, id : {0} ]
    \cup
    [ type : {InvoicePaid}, invoice_id : {""}, user_id : {""},
      transaction_id : {""}, amount_received : {0}, id : {1} ]
  ELSE IF v = "transactions" THEN
    [ type : {Succeeded, PaymentFailed, Canceled, InvoicePaid}, invoice_id : {""},
      user_id : {"u1"}, transaction_id : {"", "t1", "t9"}, amount_received : {2500},
      id : {0} ]
  ELSE IF v = "invoiceAuth" THEN
    [ type : {Succeeded, PaymentFailed, Canceled}, invoice_id : {"", "i1"},
      user_id : {"", "u1"}, transaction_id : {""}, amount_received : {2500},
      id : {1, 2} ]
  ELSE IF v = "pointsOnly" THEN
    [ type : {Succeeded, PaymentFailed}, invoice_id : {""}, user_id : {"", "u1"},
      transaction_id : {""}, amount_received : {500, 2500}, id : {0} ]
  ELSE {}

\* Mutant of constructEvent: the signature is not checked.
AcceptUnverified(sigValid) == TRUE

\* stripe.webhooks.constructEvent returns the event when the signature header
\* matches the raw body, and throws otherwise
constructEvent(sigValid) == sigValid

\* Math.floor(amountCents / 1000)
Points(amountCents) == amountCents \div PointsDivisor

\* The handler of variant v, having run on event ev up to (not including) the
\* stage `from`, names the remote call it awaits next, or "respond" when it
\* reaches res.json({ received: true }).  Stages: "start", then "update" (a
\* table update), then "rpc" (a points RPC).
\* server.js:274-315
NextCallFirst(ev, from) ==
  IF ev.type = InvoicePaid THEN (IF from = "start" THEN "update" ELSE "respond")
  ELSE IF ev.type = Succeeded THEN
    IF from = "start" /\ ~Falsy(ev.invoice_id) THEN "update"
    ELSE IF from \in {"start", "update"} /\ ~Falsy(ev.user_id) THEN "rpc"
    ELSE "respond"
  ELSE "respond"

\* Mutant of NextCallTransactions: the missing transaction_id is not checked.
NextCallAnyTransaction(ev, from) ==
  IF ev.type \in {Succeeded, PaymentFailed, Canceled} /\ from = "start"
  THEN "update" ELSE "respond"

\* server.js:534-568
NextCallTransactions(ev, from) ==
  IF ev.type \in {Succeeded, PaymentFailed, Canceled}
     /\ from = "start" /\ ~Falsy(ev.transaction_id)
  THEN "update" ELSE "respond"

\* Mutant of NextCallInvoiceAuth: the points RPC after the update is left out.
NextCallNoPoints(ev, from) ==
  IF ev.type \in {Succeeded, PaymentFailed} /\ ~Falsy(ev.invoice_id) /\ from = "start"
  THEN "update" ELSE "respond"

\* part_000:165-205
NextCallInvoiceAuth(ev, from) ==
  IF ev.type \in {Succeeded, PaymentFailed} /\ ~Falsy(ev.invoice_id)
  THEN (IF from = "start" THEN "update" ELSE IF from = "update" THEN "rpc" ELSE "respond")
  ELSE "respond"

\* part_001:146-169
NextCallPointsOnly(ev, from) ==
  IF ev.type = Succeeded /\ from = "start" /\ ~Falsy(ev.user_id)
     /\ Points(ev.amount_received) > 0
  THEN "rpc" ELSE "respond"

NextCall(v, ev, from) ==
  CASE v = "first" -> NextCallFirst(ev, from)
    [] v = "transactions" -> NextCallTransactions(ev, from)
    [] v = "invoiceAuth" -> NextCallInvoiceAuth(ev, from)
    [] v = "pointsOnly" -> NextCallPointsOnly(ev, from)

\* the handler moves on from stage `from`
Proceed(s, r, from) ==
  LET next == NextCall(variant, r.body.event, from)
  IN IF next = "respond" THEN Respond(s, r, 200) ELSE Continue(s, r, next)

\* the head of the handler: the signature check, then the dispatch on event.type
WebhookStart(s) ==
  /\ variant # "simple"
  /\ FreeSlot(s)
  /\ \E ev \in Events(variant), sigValid \in BOOLEAN :
       LET r == NewRequest("webhook", [sigValid |-> sigValid, event |-> ev], "start") IN
       IF ~constructEvent(sigValid) THEN Respond(s, r, 400)
       ELSE Proceed(s, r, "start")
  /\ started' = started + 1
  /\ UNCHANGED <<variant, now, storage, stripeSide, issued>>

\* server.js:277-283 and 298-304: the invoice row after the update
MarkPaidFirst(row, ev) ==
  IF ev.type = InvoicePaid
  THEN (IF row.stripe_invoice_id = ev.id THEN [row EXCEPT !.status = "paid"] ELSE row)
  ELSE [row EXCEPT !.status = "paid"]

\* an update that leaves a paid invoice as it is
MarkUnlessPaid(row, ev) ==
  IF row.status = "paid" THEN row
  ELSE IF ev.type = Succeeded
  THEN [row EXCEPT !.status = "paid", !.payment_intent_id = ev.id]
  ELSE [row EXCEPT !.status = "unpaid", !.payment_intent_id = ev.id]

\* part_000:171-179 and 192-199: the invoice row after the update
MarkInvoiceAuth(row, ev) ==
  IF ev.type = Succeeded
  THEN [row EXCEPT !.status = "paid", !.payment_intent_id = ev.id]
  ELSE [row EXCEPT !.status = "unpaid", !.payment_intent_id = ev.id]

\* server.js:540-545 and 560-565: the transaction row after the update
MarkTransaction(row, ev) ==
  IF ev.type = Succeeded THEN [row EXCEPT !.status = "succeeded"]
  ELSE [row EXCEPT !.status = "failed"]

\* the rows of table invoices that the update's filter selects
Selected(v, ev) ==
  IF v = "first" /\ ev.type = InvoicePaid THEN InvoiceIds
  ELSE {ev.invoice_id} \cap InvoiceIds

\* the awaited table update is applied
WebhookUpdate(s) ==
  /\ slots[s].route = "webhook" /\ slots[s].pc = "update"
  /\ LET ev == slots[s].body.event IN
       /\ invoices' = [i \in InvoiceIds |->
                         IF i \in Selected(variant, ev) /\ variant = "first"
                         THEN MarkPaidFirst(invoices[i], ev)
                         ELSE IF i \in Selected(variant, ev) /\ variant = "invoiceAuth"
                         THEN MarkInvoiceAuth(invoices[i], ev)
                         ELSE invoices[i]]
       /\ txns' = [t \in TxnIds |->
                     IF variant = "transactions" /\ t = ev.transaction_id
                     THEN MarkTransaction(txns[t], ev) ELSE txns[t]]
  /\ Proceed(s, SupaWrite(slots[s]), "update")
  /\ UNCHANGED <<variant, now, started, awards, reversals, stripeSide, issued>>

\* the awaited table update returns an error, which the handler does not read
WebhookUpdateError(s) ==
  /\ slots[s].route = "webhook" /\ slots[s].pc = "update"
  /\ Proceed(s, SupaError(SupaWrite(slots[s])), "update")
  /\ UNCHANGED <<variant, now, started, storage, stripeSide, issued>>

\* part_000:201 is the one reversal RPC; every other RPC awards points
IsReversal(v, ev) == v = "invoiceAuth" /\ ev.type = PaymentFailed

\* the awaited points RPC is executed: res.json({ received: true })
WebhookRpc(s) ==
  /\ slots[s].route = "webhook" /\ slots[s].pc = "rpc"
  /\ LET ev == slots[s].body.event IN
       IF IsReversal(variant, ev)
       THEN reversals' = reversals (+) SetToBag({ev}) /\ UNCHANGED awards
       ELSE awards' = awards (+) SetToBag({ev}) /\ UNCHANGED reversals
  /\ Proceed(s, SupaRpc(slots[s]), "rpc")
  /\ UNCHANGED <<variant, now, started, invoices, txns, stripeSide, issued>>

\* the awaited points RPC returns an error, which the handler does not read
WebhookRpcError(s) ==
  /\ slots[s].route = "webhook" /\ slots[s].pc = "rpc"
  /\ Proceed(s, SupaError(SupaRpc(slots[s])), "rpc")
  /\ UNCHANGED <<variant, now, started, storage, stripeSide, issued>>

\* ------------------------------------------------------------------- system
\* An invoice row is created outside these servers, not yet paid.
InitialStatus(v) ==
  IF v \in {"first", "invoiceAuth"} THEN {"unpaid", "open", "failed"} ELSE {"unpaid"}

\* invoices.amount in thousandths of a dollar (only invoiceAuth reads it)
InitialAmounts(v) == IF v = "invoiceAuth" THEN {494, 495} ELSE {25000}

Init ==
  /\ variant \in Variants
  /\ now = 0
  /\ started = 0
  /\ slots = [s \in Slots |-> Idle]
  /\ done = Idle
  /\ \E st \in InitialStatus(variant), am \in InitialAmounts(variant) :
       invoices = [i \in InvoiceIds |->
                     [status |-> st, amount |-> am, payment_intent_id |-> 0,
                      stripe_invoice_id |-> 0]]
  /\ txns = [t \in TxnIds |-> [status |-> "pending", payment_intent_id |-> 0]]
  /\ customers = [e \in {"", Email} |-> 0]
  /\ intents = 0
  /\ sInvoices = <<>>
  /\ awards = EmptyBag
  /\ reversals = EmptyBag
  /\ issued = EmptyBag
  /\ overlapped = FALSE

Next ==
  \/ \E s \in Slots : UploadStart(s)
  \/ \E s \in Slots : UploadSigned(s)
  \/ \E s \in Slots : UploadFailed(s)
  \/ Tick
  \/ \E s \in Slots : CpiStart(s)
  \/ \E s \in Slots : CpiRead(s)
  \/ \E s \in Slots : CpiReadError(s)
  \/ \E s \in Slots : CpiList(s)
  \/ \E s \in Slots : CpiCreate(s)
  \/ \E s \in Slots : CpiEph(s)
  \/ \E s \in Slots : CpiIntent(s)
  \/ \E s \in Slots : CpiStripeThrow(s)
  \/ \E s \in Slots : CpiSave(s)
  \/ \E s \in Slots : CpiSaveError(s)
  \/ \E s \in Slots : CsiStart(s)
  \/ \E s \in Slots : CsiRead(s)
  \/ \E s \in Slots : CsiReadError(s)
  \/ \E s \in Slots : CsiList(s)
  \/ \E s \in Slots : CsiCreate(s)
  \/ \E s \in Slots : CsiInvoice(s)
  \/ \E s \in Slots : CsiItem(s)
  \/ \E s \in Slots : CsiFinalize(s)
  \/ \E s \in Slots : CsiSave(s)
  \/ \E s \in Slots : CsiSaveError(s)
  \/ \E s \in Slots : CsiStripeThrow(s)
  \/ \E s \in Slots : IpsStart(s)
  \/ \E s \in Slots : IpsRetrieve(s)
  \/ \E s \in Slots : IpsUpdate(s)
  \/ \E s \in Slots : IpsEph(s)
  \/ \E s \in Slots : IpsStripeThrow(s)
  \/ \E s \in Slots : WebhookStart(s)
  \/ \E s \in Slots : WebhookUpdate(s)
  \/ \E s \in Slots : WebhookUpdateError(s)
  \/ \E s \in Slots : WebhookRpc(s)
  \/ \E s \in Slots : WebhookRpcError(s)

Spec == Init /\ [][Next]_vars
\* ==================================================================== claims
Answered == done.route # "idle"

InvoiceVariants == {"first", "invoiceAuth"}

\* ---- C1
\* C1: a webhook request whose signature check fails is answered with 400 and
\* has issued no Supabase read, update or RPC and no Stripe call, whatever its
\* event type and metadata; no handler stays in flight for such a request.
C1_InvalidSignatureRejected ==
  /\ (done.route = "webhook" /\ ~done.body.sigValid) =>
       /\ done.status = 400
       /\ done.stripe = 0 /\ done.reads = 0 /\ done.writes = 0 /\ done.rpcs = 0
  /\ \A s \in Slots : slots[s].route = "webhook" => slots[s].body.sigValid

C1_Witness ==
  /\ done.route = "webhook" /\ ~done.body.sigValid /\ done.status = 400
  /\ done.body.event.type = Succeeded
  /\ done.body.event.invoice_id = "i1" /\ done.body.event.user_id = "u1"
  /\ variant = "invoiceAuth"

\* ---- C2
\* the handler read the invoice row and its status was 'paid'
ReadPaidInvoice ==
  /\ variant = "invoiceAuth" /\ done.route = "cpi"
  /\ done.loc.invoice.found /\ done.loc.invoice.status = "paid"

\* C2 as stated: in invoiceAuth every /create-payment-intent request that names
\* an invoice stored as 'paid' is answered with 409 and makes no Stripe call,
\* for every customerId.
C2_Original == ReadPaidInvoice => done.status = 409 /\ done.stripe = 0

\* C2 amended: such a request makes no Stripe call and no Supabase write, and is
\* answered with 409 when its customerId is the invoice's customer_id and with
\* 403 when it is not (the ownership check comes first).
C2_PaidInvoiceRefused ==
  ReadPaidInvoice =>
    /\ done.stripe = 0 /\ done.writes = 0
    /\ done.status = IF done.loc.invoice.customer_id = done.body.customerId
                     THEN 409 ELSE 403

C2_Witness ==
  /\ ReadPaidInvoice /\ done.status = 409
  /\ done.body.customerId = InvoiceOwner

\* ---- C3
\* C3: in invoiceAuth a /create-payment-intent request with all fields present
\* whose customerId differs from the customer_id of the invoice row it read is
\* answered with 403, having made no Stripe call and no Supabase write,
\* whatever the invoice's status and amount.
C3_NotOwnerForbidden ==
  (/\ variant = "invoiceAuth" /\ done.route = "cpi"
   /\ done.loc.invoice.found
   /\ done.loc.invoice.customer_id # done.body.customerId) =>
    done.status = 403 /\ done.stripe = 0 /\ done.writes = 0

C3_Witness ==
  /\ variant = "invoiceAuth" /\ done.route = "cpi" /\ done.status = 403
  /\ done.body.customerId = "u2" /\ done.loc.invoice.customer_id = "u1"
  /\ done.loc.invoice.status = "paid"

\* ---- C4
\* the body lacks a field that the claim lists as required for the route
LacksRequired(v, r) ==
  CASE r.route = "cpi" ->
         \/ ~r.body.hasAmount
         \/ r.body.customerEmail = ""
         \/ v # "simple" /\ r.body.customerId = ""
         \/ v = "invoiceAuth" /\ r.body.invoiceId = ""
         \/ v = "transactions" /\ r.body.transactionId = ""
    [] r.route = "csi" -> r.body.invoiceId = ""
    [] r.route = "ips" -> r.body.stripeInvoiceId = 0
    [] r.route = "upload" -> Len(r.body.fileName) = 0
    [] OTHER -> FALSE

NoCalls(r) == r.stripe = 0 /\ r.reads = 0 /\ r.writes = 0 /\ r.rpcs = 0

\* C4 as stated: a request that lacks a required field is answered with 400,
\* and no Stripe or Supabase call is made for it, before the answer or at all.
C4_MissingFieldRejected ==
  /\ (Answered /\ LacksRequired(variant, done)) =>
       done.status = 400 /\ NoCalls(done)
  /\ \A s \in Slots : LacksRequired(variant, slots[s]) => NoCalls(slots[s])

\* ---- C5
\* the webhook handler in slot s has its update for a payment_intent.succeeded
\* event with a known invoice_id applied in this step
SucceededUpdateApplied(s) ==
  /\ slots[s].route = "webhook" /\ slots[s].pc = "update"
  /\ slots[s].body.event.type = Succeeded
  /\ slots[s].body.event.invoice_id \in InvoiceIds
  /\ \/ slots'[s].route = "webhook" /\ slots'[s].pc = "rpc" /\ ~slots'[s].err
     \/ slots'[s].route = "idle" /\ done'.route = "webhook" /\ ~done'.err

SetsPaid ==
  \A s \in Slots :
    SucceededUpdateApplied(s) =>
      invoices'[slots[s].body.event.invoice_id].status = "paid"

\* a validly signed payment_intent.succeeded event with a known invoice_id has
\* been answered, in a variant that correlates by invoice id
SucceededForInvoice ==
  /\ variant \in InvoiceVariants
  /\ done.route = "webhook" /\ done.body.sigValid
  /\ done.body.event.type = Succeeded
  /\ done.body.event.invoice_id \in InvoiceIds

OneAwardAlways ==
  SucceededForInvoice => done.status = 200 /\ done.writes = 1 /\ done.rpcs = 1

OneAwardPerUser ==
  SucceededForInvoice =>
    /\ done.status = 200 /\ done.writes = 1
    /\ done.rpcs = IF variant = "first" /\ done.body.event.user_id = "" THEN 0 ELSE 1

\* C5 as stated: handling such an event sets the invoice 'paid' from any prior
\* status and issues exactly one points-award RPC, whatever the user_id and
\* the amount.
C5_Original == [][SetsPaid /\ OneAwardAlways']_vars

\* C5 amended: the update, once applied, sets the invoice 'paid' from any prior
\* status; invoiceAuth issues exactly one points-award RPC whatever the user_id
\* and the amount, and first issues exactly one when metadata.user_id is set
\* and none when it is not.
C5_SucceededMarksPaid == [][SetsPaid /\ OneAwardPerUser']_vars

C5_Witness ==
  /\ SucceededForInvoice /\ variant = "first" /\ done.status = 200
  /\ done.body.event.user_id = "" /\ done.rpcs = 0 /\ ~done.err
  /\ invoices["i1"].status = "paid"

\* ---- C6
\* C6: over all deliveries of one identical validly signed
\* payment_intent.succeeded event the points-award RPC is issued at most once.
C6_AwardOncePerEvent == \A ev \in BagToSet(awards) : CopiesIn(ev, awards) <= 1

\* ---- C7
WebhookStep == \E s \in Slots : slots[s].route = "webhook" /\ slots'[s] # slots[s]

PaymentStatusChange ==
  \/ \E i \in InvoiceIds :
       /\ invoices'[i].status # invoices[i].status
       /\ invoices'[i].status \in {"paid", "failed"} \/ invoices[i].status = "paid"
  \/ \E t \in TxnIds : txns'[t].status # txns[t].status

\* C7: only a step of the webhook handler writes 'paid' or 'failed' into an
\* invoice's status, changes a transaction's status, or takes an invoice out
\* of 'paid'.
C7_OnlyWebhookChangesStatus == [][PaymentStatusChange => WebhookStep]_vars

\* ---- C8
\* a validly signed payment_intent event without its correlation identifier
\* has been answered
LacksCorrelation ==
  /\ done.route = "webhook" /\ done.body.sigValid
  /\ done.body.event.type \in {Succeeded, PaymentFailed, Canceled}
  /\ CASE variant \in InvoiceVariants -> done.body.event.invoice_id = ""
       [] variant = "transactions" -> done.body.event.transaction_id = ""
       [] variant = "pointsOnly" -> done.body.event.user_id = ""
       [] OTHER -> FALSE

\* C8 as stated: such an event is acknowledged and the handler issues no table
\* update and no points RPC for it.
C8_Original ==
  LacksCorrelation => done.status = 200 /\ done.writes = 0 /\ done.rpcs = 0

\* C8 amended: such an event is acknowledged with no table update, and with no
\* points RPC except in first, whose payment_intent.succeeded branch issues the
\* award RPC whenever metadata.user_id is set, invoice_id or not.
C8_UncorrelatedAcknowledged ==
  LacksCorrelation =>
    /\ done.status = 200 /\ done.writes = 0
    /\ done.rpcs = IF /\ variant = "first"
                      /\ done.body.event.type = Succeeded
                      /\ done.body.event.user_id # ""
                   THEN 1 ELSE 0

C8_Witness ==
  /\ LacksCorrelation /\ variant = "first" /\ done.status = 200
  /\ done.body.event.type = Succeeded /\ done.body.event.user_id = "u1"
  /\ done.rpcs = 1 /\ done.writes = 0

\* ---- C9
\* the extension as the claim words it: the text after the last '.' (all of a
\* name that has no '.'), with upper-case letters lowered
RECURSIVE AfterLastDot(_)
AfterLastDot(str) ==
  IF \A i \in 1..Len(str) : str[i] # "." THEN str
  ELSE AfterLastDot(Tail(str))

Lowered(str) ==
  [i \in 1..Len(str) |->
     CASE str[i] = "M" -> "m" [] str[i] = "P" -> "p" [] OTHER -> str[i]]

Unsupported(fileName) == Lowered(AfterLastDot(fileName)) \notin AllowedExt

\* C9: a /get-upload-url request whose fileName has an extension outside the
\* allow-list is answered with 400 without createSignedUploadUrl being called;
\* a signed URL is requested, and a path returned, only for an allowed one.
C9_UnsupportedRejected ==
  /\ (done.route = "upload" /\ Len(done.body.fileName) > 0
      /\ Unsupported(done.body.fileName)) =>
       done.status = 400 /\ done.reads = 0
  /\ \A s \in Slots : slots[s].route = "upload" => ~Unsupported(slots[s].body.fileName)
  /\ \A path \in BagToSet(issued) : ~Unsupported(path[2])

C9_Witness ==
  /\ done.route = "upload" /\ done.status = 400 /\ done.reads = 0
  /\ done.body.fileName = <<"a",".","m","p","4",".","t","x","t">>

\* ---- C10
\* C10: two accepted /get-upload-url requests with the same fileName are given
\* different storage paths, whatever the clock reads when each is handled.
C10_PathsDiffer == \A path \in BagToSet(issued) : CopiesIn(path, issued) <= 1
\* ---- C11
\* C11: a request for which a Stripe call threw or a Supabase call returned an
\* error (a read, an update or an RPC) is answered with status 500.
C11_UpstreamFailureIs500 == (Answered /\ done.err) => done.status = 500

\* ---- C14
\* a validly signed payment_intent event carrying a known invoice or
\* transaction id has been answered
CorrelatedEvent ==
  /\ done.route = "webhook" /\ done.body.sigValid
  /\ done.body.event.type \in {Succeeded, PaymentFailed, Canceled}
  /\ \/ variant \in InvoiceVariants /\ done.body.event.invoice_id \in InvoiceIds
     \/ variant = "transactions" /\ done.body.event.transaction_id \in TxnIds

\* C14: the webhook handler acknowledges such an event with a 2xx only when
\* none of the updates and RPCs it issued for the event reported an error.
C14_AckOnlyAfterStorageSuccess ==
  (CorrelatedEvent /\ done.status \in 200..299) => ~done.err
\* ---- C12
\* C12: as long as no two customer-resolving requests have been in flight at
\* once, Stripe holds at most one customer per email.
C12_OneCustomerUnlessOverlapped ==
  ~overlapped => \A e \in DOMAIN customers : customers[e] <= 1

\* two interleaved requests for the same unknown email both listed nothing
\* and both created a customer
C12_Witness ==
  /\ customers[Email] = 2
  /\ \A s \in Slots :
       /\ slots[s].route = "cpi" /\ slots[s].body.customerEmail = Email
       /\ ~slots[s].loc.found /\ slots[s].pc \in {"eph", "intent"}
\* ---- C13
\* the stages of every /create-stripe-invoice handler in flight are in order:
\* no Stripe invoice before stripe.invoices.create, the items attached so far
\* while attaching, all items before finalizeInvoice, a finalized invoice
\* before the Supabase update
CsiOrder ==
  \A s \in Slots : slots[s].route = "csi" =>
    LET r == slots[s] IN
    /\ r.writes = 0
    /\ r.pc \in {"read", "list", "create", "invoice"} => r.loc.sinv = 0
    /\ r.pc \in {"item", "finalize", "save"} => r.loc.sinv \in DOMAIN sInvoices
    /\ r.pc = "item" =>
         /\ sInvoices[r.loc.sinv] = [items |-> r.loc.k, final |-> FALSE]
         /\ r.loc.k < MaxItems
    /\ r.pc = "finalize" => sInvoices[r.loc.sinv] = [items |-> MaxItems, final |-> FALSE]
    /\ r.pc = "save" => sInvoices[r.loc.sinv] = [items |-> MaxItems, final |-> TRUE]

\* the request just answered failed while attaching an item: its Stripe
\* invoice exists and fewer than all items are attached
ItemFailed ==
  /\ Answered /\ done.route = "csi" /\ done.err
  /\ done.loc.sinv > 0 /\ done.loc.k < MaxItems

\* C13: /create-stripe-invoice creates the Stripe invoice, attaches the items,
\* finalizes and then updates the Supabase row, in this order; a failure while
\* attaching an item is answered 500 and leaves the Stripe invoice with the
\* items attached so far, not finalized, and the Supabase row as it was.
C13_ItemFailureLeavesPartialInvoice ==
  [][/\ CsiOrder'
     /\ ItemFailed' =>
          /\ done'.status = 500
          /\ UNCHANGED <<invoices, sInvoices>>
          /\ sInvoices'[done'.loc.sinv] = [items |-> done'.loc.k, final |-> FALSE]
          /\ done'.writes = 0
          /\ invoices'[done'.body.invoiceId].stripe_invoice_id # done'.loc.sinv]_vars

\* attaching the second item failed after the first was attached
C13_Witness ==
  /\ ItemFailed /\ done.loc.k = 1 /\ done.status = 500
  /\ sInvoices[done.loc.sinv].items = 1
\* ---- C15
\* the update awaited by the webhook handler in slot s is applied by this step
EventUpdateApplied(s) ==
  /\ slots[s].route = "webhook" /\ slots[s].pc = "update"
  /\ \/ slots'[s].route = "webhook" /\ slots'[s].pc = "rpc" /\ ~slots'[s].err
     \/ slots'[s].route = "idle" /\ done'.route = "webhook" /\ ~done'.err

\* whatever the row held, it now holds what this event sets
LastEventWins ==
  \A s \in Slots :
    EventUpdateApplied(s) =>
      LET ev == slots[s].body.event IN
      /\ (variant = "invoiceAuth" /\ ev.invoice_id \in InvoiceIds) =>
           /\ invoices'[ev.invoice_id].status =
                (IF ev.type = Succeeded THEN "paid" ELSE "unpaid")
           /\ invoices'[ev.invoice_id].payment_intent_id = ev.id
      /\ (variant = "transactions" /\ ev.transaction_id \in TxnIds) =>
           txns'[ev.transaction_id].status =
             (IF ev.type = Succeeded THEN "succeeded" ELSE "failed")

\* a payment_failed event for an invoice has been answered by invoiceAuth:
\* one reversal RPC was issued for it
FailureReversesPoints ==
  ( /\ variant = "invoiceAuth" /\ done.route = "webhook" /\ done.body.sigValid
    /\ done.body.event.type = PaymentFailed
    /\ done.body.event.invoice_id \in InvoiceIds ) =>
  /\ done.writes = 1 /\ done.rpcs = 1
  /\ ~done.err => done.body.event \in BagToSet(reversals)

\* C15: a webhook update that is applied overwrites the stored status whatever
\* it was: payment_failed sets a paid invoice back to 'unpaid' (and a reversal
\* RPC follows), payment_failed or canceled sets a succeeded transaction to
\* 'failed'; no status is final.
C15_LastEventWins == [][LastEventWins /\ FailureReversesPoints']_vars

\* invoiceAuth: the update of a succeeded event for i1 was applied, then the
\* update of a payment_failed event of another payment intent: i1 is unpaid
C15_Witness ==
  /\ variant = "invoiceAuth" /\ invoices["i1"].status = "unpaid"
  /\ done.route = "webhook" /\ done.body.event.type = Succeeded
  /\ done.body.event.invoice_id = "i1" /\ ~done.err /\ done.writes = 1
  /\ \E s \in Slots :
       /\ slots[s].route = "webhook" /\ slots[s].pc = "rpc" /\ ~slots[s].err
       /\ slots[s].body.event.type = PaymentFailed
       /\ slots[s].body.event.invoice_id = "i1"
       /\ slots[s].body.event.id # done.body.event.id
       /\ invoices["i1"].payment_intent_id = slots[s].body.event.id
\* ---- C16
\* the step in which stripe.paymentIntents.create returns to the handler in
\* slot s
IntentCreated(s) ==
  /\ slots[s].route = "cpi" /\ slots[s].pc = "intent"
  /\ slots'[s].route = "cpi" /\ slots'[s].pc = "save"

\* the step in which the handler's update of payment_intent_id is applied
IntentIdSaved(s) ==
  /\ slots[s].route = "cpi" /\ slots[s].pc = "save"
  /\ slots'[s].route = "idle" /\ ~done'.err

\* C16: in invoiceAuth no payment intent is created for an invoice that is
\* stored as 'paid' when paymentIntents.create is called, and the update of
\* payment_intent_id by /create-payment-intent is never applied to an invoice
\* stored as 'paid'.
C16_NoIntentForPaidInvoice ==
  [][\A s \in Slots :
       (variant = "invoiceAuth" /\ (IntentCreated(s) \/ IntentIdSaved(s))) =>
         invoices[slots[s].body.invoiceId].status # "paid"]_vars
====
